---- MODULE Spec2Model ----
(***************************************************************************)
(* Model of the DHT12 IIO driver (src/dht12.c): the bus transaction        *)
(* dht12_read_data, the trigger handler dht12_trigger_handler and the      *)
(* direct-read accessor dht12_read_raw, run by one trigger context and     *)
(* NumReaders direct-read contexts that share data->lock, the I2C bus and  *)
(* data->buffer.                                                           *)
(***************************************************************************)
EXTENDS Integers, Sequences, FiniteSets, TLC

(* ---------------------------------------------------------------- bounds *)

\* number of concurrent direct-read (sysfs) contexts
NumReaders == 1

\* pf->timestamp values handed to the trigger handler are drawn from 1..MaxTimestamp
MaxTimestamp == 1

(* ------------------------------------------------------------- constants *)

EIO == 5
EINVAL == 22
IIO_VAL_INT == 1
IRQ_HANDLED == 1
IIO_CHAN_INFO_RAW == 0
IIO_CHAN_INFO_SCALE == 2
\* GENMASK(1, 0)
DHT12_ALL_CHANNEL_MASK == 3
\* indio_dev->masklength: the three channels of dht12_channels
masklength == 3
\* ARRAY_SIZE(data->buffer)
BufferSlots == 2
\* sizeof(tx_buf) and sizeof(rx_buf): what a successful send / receive returns
TxLen == 1
RxLen == 5
\* the scale reported for IIO_CHAN_INFO_SCALE
ScaleValue == 100

\* chan->type of the two data channels
ChanTypes == {"IIO_HUMIDITYRELATIVE", "IIO_TEMP"}

\* the info-type selectors a direct read is called with
\* (3 is IIO_CHAN_INFO_OFFSET, which the driver does not handle)
InfoMasks == {IIO_CHAN_INFO_RAW, IIO_CHAN_INFO_SCALE, 3}

\* negative errno values the I2C core hands back from a failed transfer
\* (-ENXIO: the sensor did not acknowledge)
BusErrs == {-6}

(* -------------------------------------------------------------- contexts *)

TrigCtx == 0
Readers == 1..NumReaders
Contexts == {TrigCtx} \cup Readers
NoCtx == -1

(* ------------------------------------------------- frames the sensor sends *)

\* u8 arithmetic: the value a sum has once stored in a u8
U8(x) == x % 256

\* s16 storage: the value an int has once stored in an s16 field
S16(x) == ((x + 32768) % 65536) - 32768

\* the 5-byte frames the sensor answers with under Spec: 23.45 % / 26.50 C
\* intact, the all-zero frame (intact too), and 23.45 % / 26.50 C with a
\* checksum byte that is off by one; SpecFrames covers the other byte values
Frames == { <<23, 45, 26, 50, 144>>, <<0, 0, 0, 0, 0>>, <<23, 45, 26, 50, 145>> }

(* --------------------------------------------------------- pure functions *)

\* line 75 with crc declared int instead of u8: the sum is not truncated
CrcNoWrap(f) == f[1] + f[2] + f[3] + f[4]

\* line 75: crc = rx_buf[0] + rx_buf[1] + rx_buf[2] + rx_buf[3], crc being a u8
Crc(f) == U8(f[1] + f[2] + f[3] + f[4])

\* line 76, negated: the frame passes the checksum
CrcOk(f) == Crc(f) = f[5]

\* lines 81-82 with the product kept in a u8 before the low byte is added
DecodeU8Product(f) == << S16(U8(f[1] * 100) + f[2]), S16(U8(f[3] * 100) + f[4]) >>

\* lines 81-82: the decoded reading <<hum_data, temp_data>>, each an s16
Decode(f) == << S16((f[1] * 100) + f[2]), S16((f[3] * 100) + f[4]) >>

Hum(sd) == sd[1]
Temp(sd) == sd[2]

\* lines 140-141, with the operands exchanged
ChanValueSwapped(ch, sd) == IF ch = "IIO_HUMIDITYRELATIVE" THEN Temp(sd) ELSE Hum(sd)

\* lines 140-141: the field a direct read of a channel of type ch reports
ChanValue(ch, sd) == IF ch = "IIO_HUMIDITYRELATIVE" THEN Hum(sd) ELSE Temp(sd)

\* bit `b` of mask `m`
BitSet(m, b) == (m \div (2 ^ b)) % 2 = 1

\* lines 111-117 with data->buffer[bit] written instead of data->buffer[i]
RECURSIVE LoopWritesAtBit(_, _, _, _)
LoopWritesAtBit(m, sd, b, i) ==
    IF b >= masklength THEN << >>
    ELSE IF BitSet(m, b)
         THEN << <<b, IF b # 0 THEN Temp(sd) ELSE Hum(sd)>> >>
                 \o LoopWritesAtBit(m, sd, b + 1, i + 1)
         ELSE LoopWritesAtBit(m, sd, b + 1, i)

\* lines 111-117: the writes <<index, value>> of the per-bit loop, in order,
\* for bits b..masklength-1 with write index i
RECURSIVE LoopWrites(_, _, _, _)
LoopWrites(m, sd, b, i) ==
    IF b >= masklength THEN << >>
    ELSE IF BitSet(m, b)
         THEN << <<i, IF b # 0 THEN Temp(sd) ELSE Hum(sd)>> >>
                 \o LoopWrites(m, sd, b + 1, i + 1)
         ELSE LoopWrites(m, sd, b + 1, i)

\* lines 107-118 with the loop of LoopWritesAtBit
ProjectWritesAtBit(m, sd) ==
    IF m = DHT12_ALL_CHANNEL_MASK
    THEN << <<0, Hum(sd)>>, <<1, Temp(sd)>> >>
    ELSE LoopWritesAtBit(m, sd, 0, 0)

\* lines 107-118 with the slots the loop did not write set to zero
ProjectWritesZeroFill(m, sd) ==
    IF m = DHT12_ALL_CHANNEL_MASK
    THEN << <<0, Hum(sd)>>, <<1, Temp(sd)>> >>
    ELSE LET ws == LoopWrites(m, sd, 0, 0)
         IN ws \o [k \in 1..(BufferSlots - Len(ws)) |-> << Len(ws) + k - 1, 0 >>]

\* lines 107-118: the writes the projection makes to data->buffer
ProjectWrites(m, sd) ==
    IF m = DHT12_ALL_CHANNEL_MASK
    THEN << <<0, Hum(sd)>>, <<1, Temp(sd)>> >>
    ELSE LoopWrites(m, sd, 0, 0)

\* data->buffer (slots 0..BufferSlots-1, kept as a sequence) after the writes
RECURSIVE ApplyWrites(_, _)
ApplyWrites(buf, ws) ==
    IF ws = << >> THEN buf
    ELSE LET w == Head(ws)
             nb == IF w[1] < BufferSlots THEN [buf EXCEPT ![w[1] + 1] = w[2]] ELSE buf
         IN ApplyWrites(nb, Tail(ws))

\* whether some write lands outside data->buffer
WritesOutside(ws) == \E k \in 1..Len(ws) : ws[k][1] >= BufferSlots

\* the active scan masks the IIO core enables a buffer with: non-empty sets of
\* the two data channels (the timestamp is enabled through scan_timestamp)
ActiveScanMasks == 1..3

\* the masks the loop of lines 111-117 is written for: for_each_set_bit visits
\* the bits 0..masklength-1, and masklength covers the three registered
\* channels, the timestamp at scan index 2 included
LoopScanMasks == 1..((2 ^ masklength) - 1)

Timestamps == 1..MaxTimestamp

(* ------------------------------------------------------------------ state *)

VARIABLES
    lock,         \* data->lock: the context holding it, or NoCtx
    bus,          \* the context whose command the sensor is answering, or NoCtx
    buffer,       \* data->buffer
    oob,          \* TRUE once a projection wrote outside data->buffer
    pc,           \* where each context is in its handler
    site,         \* the call site of the dht12_read_data a context is in
    rd_ret,       \* dht12_read_data's local ret
    rx_buf,       \* rx_buf of a context's latest dht12_read_data (<< >>: not received)
    rx_src,       \* the context whose command the frame in rx_buf answers
    sensor_data,  \* the caller's struct dht12_sensor_data (<< >>: not written)
    ret,          \* the caller's local ret
    scan_mask,    \* *(indio_dev->active_scan_mask) of the firing
    timestamp,    \* pf->timestamp of the firing
    chan,         \* chan->type of a direct read
    info,         \* the mask argument of a direct read
    val,          \* *val of a direct read (<< >>: not written by the driver)
    trace,        \* the calls a context has made since its handler was entered
    sink,         \* what the firing under way has pushed to the buffer sink
    irq           \* what the trigger handler last returned (0: it has not returned)

vars == << lock, bus, buffer, oob, pc, site, rd_ret, rx_buf, rx_src, sensor_data,
           ret, scan_mask, timestamp, chan, info, val, trace, sink, irq >>

shared == << lock, bus, buffer, oob, sink, irq >>
args   == << scan_mask, timestamp, chan, info >>

\* the context's handler makes the call `op`
Log(c, op) == trace' = [trace EXCEPT ![c] = Append(@, op)]

\* lines 155-189 (kzalloc'ed private data, mutex_init) with every context idle
Init ==
    /\ lock = NoCtx
    /\ bus = NoCtx
    /\ buffer = [k \in 1..BufferSlots |-> 0]
    /\ oob = FALSE
    /\ pc = [c \in Contexts |-> "idle"]
    /\ site = [c \in Contexts |-> "none"]
    /\ rd_ret = [c \in Contexts |-> 0]
    /\ rx_buf = [c \in Contexts |-> << >>]
    /\ rx_src = [c \in Contexts |-> NoCtx]
    /\ sensor_data = [c \in Contexts |-> << >>]
    /\ ret = [c \in Contexts |-> 0]
    /\ scan_mask = 0
    /\ timestamp = 0
    /\ chan = [c \in Readers |-> "none"]
    /\ info = [c \in Readers |-> 0]
    /\ val = [c \in Readers |-> << >>]
    /\ trace = [c \in Contexts |-> << >>]
    /\ sink = << >>
    /\ irq = 0

(* ------------------------------------------------------- dht12_read_data *)

\* line 61 (and 106) without mutual exclusion: the caller never waits
MutexNeverWaits(c) == TRUE

\* line 61: mutex_lock blocks until the lock is free
MutexFree(c) == lock = NoCtx

\* entry of dht12_read_data from call site s: its locals are not initialised
CallReadData(c, s) ==
    /\ pc' = [pc EXCEPT ![c] = "rd_lock"]
    /\ site' = [site EXCEPT ![c] = s]
    /\ rd_ret' = [rd_ret EXCEPT ![c] = 0]
    /\ rx_buf' = [rx_buf EXCEPT ![c] = << >>]
    /\ rx_src' = [rx_src EXCEPT ![c] = NoCtx]

\* line 61
ReadDataLock(c) ==
    /\ pc[c] = "rd_lock"
    /\ MutexFree(c)
    /\ lock' = c
    /\ pc' = [pc EXCEPT ![c] = "rd_send"]
    /\ Log(c, "lock")
    /\ UNCHANGED << bus, buffer, oob, sink, irq, site, rd_ret, rx_buf, rx_src,
                    sensor_data, ret, val, args >>

\* lines 62-68 without the usleep_range of line 67
ReadDataSendNoDelay(c) ==
    /\ pc[c] = "rd_send"
    /\ \E r \in BusErrs \cup {TxLen} :
          /\ rd_ret' = [rd_ret EXCEPT ![c] = r]
          /\ IF r < 0
             THEN /\ pc' = [pc EXCEPT ![c] = "rd_exit_unlock"]
                  /\ bus' = bus
                  /\ Log(c, "send_failed")
             ELSE /\ pc' = [pc EXCEPT ![c] = "rd_recv"]
                  /\ bus' = c
                  /\ Log(c, "send")
    /\ UNCHANGED << lock, buffer, oob, sink, irq, site, rx_buf, rx_src,
                    sensor_data, ret, val, args >>

\* lines 62-66: i2c_master_send of tx_buf = {0x00}; r is what it returns
ReadDataSend(c) ==
    /\ pc[c] = "rd_send"
    /\ \E r \in BusErrs \cup {TxLen} :
          /\ rd_ret' = [rd_ret EXCEPT ![c] = r]
          /\ IF r < 0
             THEN /\ pc' = [pc EXCEPT ![c] = "rd_exit_unlock"]
                  /\ bus' = bus
                  /\ Log(c, "send_failed")
             ELSE /\ pc' = [pc EXCEPT ![c] = "rd_delay1"]
                  /\ bus' = c
                  /\ Log(c, "send")
    /\ UNCHANGED << lock, buffer, oob, sink, irq, site, rx_buf, rx_src,
                    sensor_data, ret, val, args >>

\* line 67: usleep_range(10000, 20000)
ReadDataDelay1(c) ==
    /\ pc[c] = "rd_delay1"
    /\ pc' = [pc EXCEPT ![c] = "rd_recv"]
    /\ Log(c, "delay")
    /\ UNCHANGED << shared, site, rd_ret, rx_buf, rx_src, sensor_data, ret, val, args >>

\* lines 68-74 without the usleep_range of line 73
ReadDataRecvNoDelay(c) ==
    /\ pc[c] = "rd_recv"
    /\ \/ \E r \in BusErrs :
             /\ rd_ret' = [rd_ret EXCEPT ![c] = r]
             /\ pc' = [pc EXCEPT ![c] = "rd_exit_unlock"]
             /\ Log(c, "recv_failed")
             /\ UNCHANGED << rx_buf, rx_src, bus >>
       \/ \E f \in Frames :
             /\ rd_ret' = [rd_ret EXCEPT ![c] = RxLen]
             /\ rx_buf' = [rx_buf EXCEPT ![c] = f]
             /\ rx_src' = [rx_src EXCEPT ![c] = bus]
             /\ bus' = NoCtx
             /\ pc' = [pc EXCEPT ![c] = "rd_unlock"]
             /\ Log(c, "recv")
    /\ UNCHANGED << lock, buffer, oob, sink, irq, site, sensor_data, ret, val, args >>

\* lines 68-74 with the mutex_unlock of line 74 ahead of the usleep_range of
\* line 73
ReadDataRecvUnlocksEarly(c) ==
    /\ pc[c] = "rd_recv"
    /\ \/ \E r \in BusErrs :
             /\ rd_ret' = [rd_ret EXCEPT ![c] = r]
             /\ pc' = [pc EXCEPT ![c] = "rd_exit_unlock"]
             /\ Log(c, "recv_failed")
             /\ UNCHANGED << rx_buf, rx_src, bus, lock >>
       \/ \E f \in Frames :
             /\ rd_ret' = [rd_ret EXCEPT ![c] = RxLen]
             /\ rx_buf' = [rx_buf EXCEPT ![c] = f]
             /\ rx_src' = [rx_src EXCEPT ![c] = bus]
             /\ bus' = NoCtx
             /\ lock' = NoCtx
             /\ pc' = [pc EXCEPT ![c] = "rd_delay2"]
             /\ Log(c, "recv")
    /\ UNCHANGED << buffer, oob, sink, irq, site, sensor_data, ret, val, args >>

\* lines 68-72: i2c_master_recv of sizeof(rx_buf) bytes; the sensor answers the
\* command it was last sent with a frame f
ReadDataRecv(c) ==
    /\ pc[c] = "rd_recv"
    /\ \/ \E r \in BusErrs :
             /\ rd_ret' = [rd_ret EXCEPT ![c] = r]
             /\ pc' = [pc EXCEPT ![c] = "rd_exit_unlock"]
             /\ Log(c, "recv_failed")
             /\ UNCHANGED << rx_buf, rx_src, bus >>
       \/ \E f \in Frames :
             /\ rd_ret' = [rd_ret EXCEPT ![c] = RxLen]
             /\ rx_buf' = [rx_buf EXCEPT ![c] = f]
             /\ rx_src' = [rx_src EXCEPT ![c] = bus]
             /\ bus' = NoCtx
             /\ pc' = [pc EXCEPT ![c] = "rd_delay2"]
             /\ Log(c, "recv")
    /\ UNCHANGED << lock, buffer, oob, sink, irq, site, sensor_data, ret, val, args >>

\* line 73: usleep_range(10000, 20000)
ReadDataDelay2(c) ==
    /\ pc[c] = "rd_delay2"
    /\ pc' = [pc EXCEPT ![c] = "rd_unlock"]
    /\ Log(c, "delay")
    /\ UNCHANGED << shared, site, rd_ret, rx_buf, rx_src, sensor_data, ret, val, args >>

\* lines 73-75 without the mutex_unlock of line 74
ReadDataUnlockMissing(c) ==
    /\ pc[c] = "rd_unlock"
    /\ pc' = [pc EXCEPT ![c] = "rd_crc"]
    /\ UNCHANGED << shared, site, rd_ret, rx_buf, rx_src, sensor_data, ret, val,
                    args, trace >>

\* line 74
ReadDataUnlock(c) ==
    /\ pc[c] = "rd_unlock"
    /\ lock' = NoCtx
    /\ pc' = [pc EXCEPT ![c] = "rd_crc"]
    /\ Log(c, "unlock")
    /\ UNCHANGED << bus, buffer, oob, sink, irq, site, rd_ret, rx_buf, rx_src,
                    sensor_data, ret, val, args >>

\* lines 101-103 with the second read made only when the first one failed
ReturnSkipsSecondRead(c, v) ==
    /\ ret' = [ret EXCEPT ![c] = v]
    /\ IF site[c] = "th1" /\ v < 0
       THEN CallReadData(c, "th2")
       ELSE /\ pc' = [pc EXCEPT ![c] = IF site[c] = "raw" THEN "rr_check" ELSE "th_check"]
            /\ site' = [site EXCEPT ![c] = "none"]
            /\ rd_ret' = [rd_ret EXCEPT ![c] = 0]
            /\ UNCHANGED << rx_buf, rx_src >>

\* dht12_read_data returns v to its call site: line 101 goes on to the second
\* call of line 103, line 103 to the test of line 104, line 137 to that of line 138
ReturnFromReadData(c, v) ==
    /\ ret' = [ret EXCEPT ![c] = v]
    /\ IF site[c] = "th1"
       THEN CallReadData(c, "th2")
       ELSE /\ pc' = [pc EXCEPT ![c] = IF site[c] = "th2" THEN "th_check" ELSE "rr_check"]
            /\ site' = [site EXCEPT ![c] = "none"]
            /\ rd_ret' = [rd_ret EXCEPT ![c] = 0]
            /\ UNCHANGED << rx_buf, rx_src >>

\* lines 75-84: checksum test, then decode into *sensor_data and return ret
ReadDataCheck(c) ==
    /\ pc[c] = "rd_crc"
    /\ IF ~CrcOk(rx_buf[c])
       THEN /\ Log(c, "crc_failed")
            /\ sensor_data' = sensor_data
            /\ ReturnFromReadData(c, -EIO)
       ELSE /\ Log(c, "decode")
            /\ sensor_data' = [sensor_data EXCEPT ![c] = Decode(rx_buf[c])]
            /\ ReturnFromReadData(c, rd_ret[c])
    /\ UNCHANGED << shared, val, args >>

\* lines 86-88 without the mutex_unlock of line 87
ReadDataExitKeepsLock(c) ==
    /\ pc[c] = "rd_exit_unlock"
    /\ ReturnFromReadData(c, rd_ret[c])
    /\ UNCHANGED << shared, sensor_data, val, args, trace >>

\* lines 86-88 with the error exit returning -EIO in place of the bus call's code
ReadDataExitUnlockReturnsEIO(c) ==
    /\ pc[c] = "rd_exit_unlock"
    /\ lock' = NoCtx
    /\ Log(c, "unlock")
    /\ ReturnFromReadData(c, -EIO)
    /\ UNCHANGED << bus, buffer, oob, sink, irq, sensor_data, val, args >>

\* lines 86-88
ReadDataExitUnlock(c) ==
    /\ pc[c] = "rd_exit_unlock"
    /\ lock' = NoCtx
    /\ Log(c, "unlock")
    /\ ReturnFromReadData(c, rd_ret[c])
    /\ UNCHANGED << bus, buffer, oob, sink, irq, sensor_data, val, args >>

(* ------------------------------------------------- dht12_trigger_handler *)

\* lines 91-101: the trigger fires; sensor_data and ret are uninitialised
\* locals; the first dht12_read_data is called
TriggerFire(c) ==
    /\ c = TrigCtx
    /\ pc[c] = "idle"
    /\ CallReadData(c, "th1")
    /\ UNCHANGED << shared, args, val, sensor_data, ret, trace >>

\* lines 104-105 falling back on the first read's result when the second fails
TriggerCheckFallsBack(c) ==
    /\ pc[c] = "th_check"
    /\ pc' = [pc EXCEPT ![c] = IF ret[c] < 0 /\ sensor_data[c] = << >>
                               THEN "th_done" ELSE "th_lock"]
    /\ UNCHANGED << shared, site, rd_ret, rx_buf, rx_src, sensor_data, ret, val,
                    args, trace >>

\* lines 104-105 with the error exit returning without iio_trigger_notify_done
TriggerCheckSkipsDone(c) ==
    /\ pc[c] = "th_check"
    /\ pc' = [pc EXCEPT ![c] = IF ret[c] < 0 THEN "th_ret" ELSE "th_lock"]
    /\ UNCHANGED << shared, site, rd_ret, rx_buf, rx_src, sensor_data, ret, val,
                    args, trace >>

\* lines 104-105
TriggerCheck(c) ==
    /\ pc[c] = "th_check"
    /\ pc' = [pc EXCEPT ![c] = IF ret[c] < 0 THEN "th_done" ELSE "th_lock"]
    /\ UNCHANGED << shared, site, rd_ret, rx_buf, rx_src, sensor_data, ret, val,
                    args, trace >>

\* lines 106-118 without the mutex_lock of line 106
TriggerLockNotTaken(c) ==
    /\ pc[c] = "th_lock"
    /\ pc' = [pc EXCEPT ![c] = "th_project"]
    /\ Log(c, "lock")
    /\ UNCHANGED << shared, site, rd_ret, rx_buf, rx_src, sensor_data, ret, val, args >>

\* line 106
TriggerLock(c) ==
    /\ pc[c] = "th_lock"
    /\ MutexFree(c)
    /\ lock' = c
    /\ pc' = [pc EXCEPT ![c] = "th_project"]
    /\ Log(c, "lock")
    /\ UNCHANGED << bus, buffer, oob, sink, irq, site, rd_ret, rx_buf, rx_src,
                    sensor_data, ret, val, args >>

\* lines 107-118: *(indio_dev->active_scan_mask) is read here; it is m
TriggerProject(c) ==
    /\ pc[c] = "th_project"
    /\ \E m \in ActiveScanMasks :
          LET ws == ProjectWrites(m, sensor_data[c])
          IN /\ scan_mask' = m
             /\ buffer' = ApplyWrites(buffer, ws)
             /\ oob' = (oob \/ WritesOutside(ws))
    /\ Log(c, "project")
    /\ pc' = [pc EXCEPT ![c] = "th_unlock"]
    /\ UNCHANGED << lock, bus, sink, irq, site, rd_ret, rx_buf, rx_src,
                    sensor_data, ret, val, timestamp, chan, info >>

\* lines 118-121 without the mutex_unlock of line 119
TriggerUnlockMissing(c) ==
    /\ pc[c] = "th_unlock"
    /\ pc' = [pc EXCEPT ![c] = "th_push"]
    /\ UNCHANGED << shared, site, rd_ret, rx_buf, rx_src, sensor_data, ret, val,
                    args, trace >>

\* line 119
TriggerUnlock(c) ==
    /\ pc[c] = "th_unlock"
    /\ lock' = NoCtx
    /\ pc' = [pc EXCEPT ![c] = "th_push"]
    /\ Log(c, "unlock")
    /\ UNCHANGED << bus, buffer, oob, sink, irq, site, rd_ret, rx_buf, rx_src,
                    sensor_data, ret, val, args >>

\* line 121: iio_push_to_buffers_with_timestamp(indio_dev, data->buffer,
\* pf->timestamp); pf->timestamp is read here; it is ts
TriggerPush(c) ==
    /\ pc[c] = "th_push"
    /\ \E ts \in Timestamps :
          /\ timestamp' = ts
          /\ sink' = Append(sink, [data |-> buffer, mask |-> scan_mask, ts |-> ts])
    /\ pc' = [pc EXCEPT ![c] = "th_done"]
    /\ Log(c, "push")
    /\ UNCHANGED << lock, bus, buffer, oob, irq, site, rd_ret, rx_buf, rx_src,
                    sensor_data, ret, val, scan_mask, chan, info >>

\* line 123: iio_trigger_notify_done(indio_dev->trig)
TriggerNotifyDone(c) ==
    /\ pc[c] = "th_done"
    /\ pc' = [pc EXCEPT ![c] = "th_ret"]
    /\ Log(c, "done")
    /\ UNCHANGED << shared, site, rd_ret, rx_buf, rx_src, sensor_data, ret, val, args >>

\* line 124: return IRQ_HANDLED; the locals go out of scope and the firing,
\* with what it pushed, is over
TriggerReturn(c) ==
    /\ pc[c] = "th_ret"
    /\ pc' = [pc EXCEPT ![c] = "idle"]
    /\ irq' = IRQ_HANDLED
    /\ sensor_data' = [sensor_data EXCEPT ![c] = << >>]
    /\ ret' = [ret EXCEPT ![c] = 0]
    /\ rx_buf' = [rx_buf EXCEPT ![c] = << >>]
    /\ rx_src' = [rx_src EXCEPT ![c] = NoCtx]
    /\ trace' = [trace EXCEPT ![c] = << >>]
    /\ scan_mask' = 0
    /\ timestamp' = 0
    /\ sink' = << >>
    /\ UNCHANGED << lock, bus, buffer, oob, site, rd_ret, val, chan, info >>

(* --------------------------------------------------------- dht12_read_raw *)

\* lines 127-137: dht12_read_raw is entered with mask = IIO_CHAN_INFO_RAW;
\* sensor_data and ret are uninitialised locals; dht12_read_data is called
ReadRawRaw(c) ==
    /\ pc[c] = "idle"
    /\ info' = [info EXCEPT ![c] = IIO_CHAN_INFO_RAW]
    /\ CallReadData(c, "raw")
    /\ UNCHANGED << shared, scan_mask, timestamp, chan, sensor_data, ret, val, trace >>

\* lines 138-142: chan->type is read here; it is ch
ReadRawCheck(c) ==
    /\ pc[c] = "rr_check"
    /\ pc' = [pc EXCEPT ![c] = "rr_ret"]
    /\ IF ret[c] < 0
       THEN UNCHANGED << val, ret, chan >>
       ELSE \E ch \in ChanTypes :
               /\ chan' = [chan EXCEPT ![c] = ch]
               /\ val' = [val EXCEPT ![c] = << ChanValue(ch, sensor_data[c]) >>]
               /\ ret' = [ret EXCEPT ![c] = IIO_VAL_INT]
    /\ UNCHANGED << shared, site, rd_ret, rx_buf, rx_src, sensor_data, trace,
                    scan_mask, timestamp, info >>

\* lines 143-148 without the return of line 145: the case falls out of the switch
ReadRawScaleFallsThrough(c) ==
    /\ pc[c] = "idle"
    /\ \E ch \in ChanTypes : chan' = [chan EXCEPT ![c] = ch]
    /\ info' = [info EXCEPT ![c] = IIO_CHAN_INFO_SCALE]
    /\ val' = [val EXCEPT ![c] = << ScaleValue >>]
    /\ ret' = [ret EXCEPT ![c] = -EINVAL]
    /\ pc' = [pc EXCEPT ![c] = "rr_ret"]
    /\ UNCHANGED << shared, site, scan_mask, timestamp, sensor_data, trace,
                    rx_buf, rx_src, rd_ret >>

\* lines 143-145: dht12_read_raw entered with mask = IIO_CHAN_INFO_SCALE, for
\* a channel of type ch
ReadRawScale(c) ==
    /\ pc[c] = "idle"
    /\ \E ch \in ChanTypes : chan' = [chan EXCEPT ![c] = ch]
    /\ info' = [info EXCEPT ![c] = IIO_CHAN_INFO_SCALE]
    /\ val' = [val EXCEPT ![c] = << ScaleValue >>]
    /\ ret' = [ret EXCEPT ![c] = IIO_VAL_INT]
    /\ pc' = [pc EXCEPT ![c] = "rr_ret"]
    /\ UNCHANGED << shared, site, scan_mask, timestamp, sensor_data, trace,
                    rx_buf, rx_src, rd_ret >>

\* lines 146-148: dht12_read_raw entered with any other selector m falls out
\* of the switch
ReadRawOther(c) ==
    /\ pc[c] = "idle"
    /\ \E ch \in ChanTypes : chan' = [chan EXCEPT ![c] = ch]
    /\ \E m \in InfoMasks \ {IIO_CHAN_INFO_RAW, IIO_CHAN_INFO_SCALE} :
          info' = [info EXCEPT ![c] = m]
    /\ ret' = [ret EXCEPT ![c] = -EINVAL]
    /\ pc' = [pc EXCEPT ![c] = "rr_ret"]
    /\ UNCHANGED << shared, site, val, scan_mask, timestamp, sensor_data, trace,
                    rx_buf, rx_src, rd_ret >>

\* the return of lines 139, 142, 145 or 148 hands ret[c] to the caller, whose
\* call frame (and *val with it) is then gone
ReadRawReturn(c) ==
    /\ pc[c] = "rr_ret"
    /\ pc' = [pc EXCEPT ![c] = "idle"]
    /\ chan' = [chan EXCEPT ![c] = "none"]
    /\ info' = [info EXCEPT ![c] = 0]
    /\ val' = [val EXCEPT ![c] = << >>]
    /\ ret' = [ret EXCEPT ![c] = 0]
    /\ sensor_data' = [sensor_data EXCEPT ![c] = << >>]
    /\ rx_buf' = [rx_buf EXCEPT ![c] = << >>]
    /\ rx_src' = [rx_src EXCEPT ![c] = NoCtx]
    /\ trace' = [trace EXCEPT ![c] = << >>]
    /\ UNCHANGED << shared, site, rd_ret, scan_mask, timestamp >>

(* ---------------------------------------------------------- specification *)

Next ==
    \/ \E c \in Contexts : ReadDataLock(c)
    \/ \E c \in Contexts : ReadDataSend(c)
    \/ \E c \in Contexts : ReadDataDelay1(c)
    \/ \E c \in Contexts : ReadDataRecv(c)
    \/ \E c \in Contexts : ReadDataDelay2(c)
    \/ \E c \in Contexts : ReadDataUnlock(c)
    \/ \E c \in Contexts : ReadDataCheck(c)
    \/ \E c \in Contexts : ReadDataExitUnlock(c)
    \/ \E c \in Contexts : TriggerFire(c)
    \/ \E c \in Contexts : TriggerCheck(c)
    \/ \E c \in Contexts : TriggerLock(c)
    \/ \E c \in Contexts : TriggerProject(c)
    \/ \E c \in Contexts : TriggerUnlock(c)
    \/ \E c \in Contexts : TriggerPush(c)
    \/ \E c \in Contexts : TriggerNotifyDone(c)
    \/ \E c \in Contexts : TriggerReturn(c)
    \/ \E c \in Readers : ReadRawRaw(c)
    \/ \E c \in Readers : ReadRawCheck(c)
    \/ \E c \in Readers : ReadRawScale(c)
    \/ \E c \in Readers : ReadRawOther(c)
    \/ \E c \in Readers : ReadRawReturn(c)

Spec == Init /\ [][Next]_vars

\* the same behaviours, as the specification the lock-discipline properties
\* are stated for
SpecLock == Init /\ [][Next]_vars

(* --------------------------------------------------------- fair scheduling *)

\* the steps of context c that need nothing but the processor or a bus call
\* that returns: every step of a handler under way except its mutex_lock calls
Proceed(c) ==
    \/ ReadDataSend(c) \/ ReadDataDelay1(c) \/ ReadDataRecv(c) \/ ReadDataDelay2(c)
    \/ ReadDataUnlock(c) \/ ReadDataCheck(c) \/ ReadDataExitUnlock(c)
    \/ TriggerCheck(c) \/ TriggerProject(c) \/ TriggerUnlock(c) \/ TriggerPush(c)
    \/ TriggerNotifyDone(c) \/ TriggerReturn(c)
    \/ (c \in Readers /\ (ReadRawCheck(c) \/ ReadRawReturn(c)))

\* a handler under way is scheduled again and its bus calls return (weak
\* fairness of its steps); the mutex serves its waiters in turn, so one that
\* finds the lock free again and again gets it (strong fairness of lines 61
\* and 106). When a trigger fires or a direct read is made is left open.
Fairness ==
    \A c \in Contexts :
        /\ WF_vars(Proceed(c))
        /\ SF_vars(ReadDataLock(c))
        /\ SF_vars(TriggerLock(c))

SpecFair == Init /\ [][Next]_vars /\ Fairness

(* -------------------------------------------- the checksum step, any frame *)

\* the byte values the frames of SpecFrames are built from
ByteSamples == {0, 1, 99, 100, 127, 128, 255}

\* frames over ByteSamples whose checksum byte is right, one too large or one
\* too small
WideFrames ==
    { << q[1], q[2], q[3], q[4], U8(q[1] + q[2] + q[3] + q[4] + d) >> :
        q \in ByteSamples \X ByteSamples \X ByteSamples \X ByteSamples,
        d \in {0, 1, 255} }

\* what the first transaction of a firing left in sensor_data when it succeeded
\* (its frame was 1, 2, 3, 4, 10)
PriorReading == << 102, 304 >>

\* the calls of a transaction up to line 74, and of one whose send failed
ReceivedTrace == << "lock", "send", "delay", "recv", "delay", "unlock" >>
SendFailedTrace == << "lock", "send_failed", "unlock" >>

\* one context has just released the lock at line 74 holding frame f (the
\* trigger handler in its second transaction, a reader in its only one); the
\* others are idle
InitFrames ==
    /\ lock = NoCtx
    /\ bus = NoCtx
    /\ buffer = [k \in 1..BufferSlots |-> 0]
    /\ oob = FALSE
    /\ scan_mask = 0
    /\ timestamp = 0
    /\ sink = << >>
    /\ irq = 0
    /\ chan = [r \in Readers |-> "none"]
    /\ info = [r \in Readers |-> 0]
    /\ val = [r \in Readers |-> << >>]
    /\ \E c \in Contexts, f \in WideFrames, first \in BOOLEAN :
          /\ (c # TrigCtx) => ~first
          /\ pc = [d \in Contexts |-> IF d = c THEN "rd_crc" ELSE "idle"]
          /\ site = [d \in Contexts |->
                        IF d # c THEN "none" ELSE IF c = TrigCtx THEN "th2" ELSE "raw"]
          /\ rd_ret = [d \in Contexts |-> IF d = c THEN RxLen ELSE 0]
          /\ rx_buf = [d \in Contexts |-> IF d = c THEN f ELSE << >>]
          /\ rx_src = [d \in Contexts |-> IF d = c THEN c ELSE NoCtx]
          /\ sensor_data = [d \in Contexts |->
                               IF d = c /\ first THEN PriorReading ELSE << >>]
          /\ ret = [d \in Contexts |->
                       IF d = c /\ c = TrigCtx
                       THEN (IF first THEN RxLen ELSE -6) ELSE 0]
          /\ trace = [d \in Contexts |->
                         IF d # c THEN << >>
                         ELSE IF c # TrigCtx THEN ReceivedTrace
                         ELSE IF first THEN ReceivedTrace \o << "decode" >> \o ReceivedTrace
                         ELSE SendFailedTrace \o ReceivedTrace]

NextFrames ==
    \/ \E c \in Contexts : ReadDataCheck(c)
    \/ \E c \in Contexts : TriggerCheck(c)
    \/ \E c \in Contexts : TriggerLock(c)
    \/ \E c \in Contexts : TriggerProject(c)
    \/ \E c \in Contexts : TriggerUnlock(c)
    \/ \E c \in Contexts : TriggerPush(c)
    \/ \E c \in Contexts : TriggerNotifyDone(c)
    \/ \E c \in Contexts : TriggerReturn(c)
    \/ \E c \in Readers : ReadRawCheck(c)
    \/ \E c \in Readers : ReadRawReturn(c)

SpecFrames == InitFrames /\ [][NextFrames]_vars

(* ------------------------------------- the projection, any mask of the loop *)

\* what data->buffer may hold after the writes ws: when all of them are inside
\* the array, the array as written; when one is outside, the behaviour is
\* undefined and each slot may hold any of the values involved
BufferAfter(buf, ws) ==
    IF ~WritesOutside(ws)
    THEN { ApplyWrites(buf, ws) }
    ELSE [1..BufferSlots -> {buf[k] : k \in 1..BufferSlots} \cup {ws[k][2] : k \in 1..Len(ws)}]

\* lines 107-118, *(indio_dev->active_scan_mask) being any mask m over
\* masklength bits
TriggerProjectAnyMask(c) ==
    /\ pc[c] = "th_project"
    /\ \E m \in LoopScanMasks :
          LET ws == ProjectWrites(m, sensor_data[c])
          IN /\ scan_mask' = m
             /\ buffer' \in BufferAfter(buffer, ws)
             /\ oob' = (oob \/ WritesOutside(ws))
    /\ Log(c, "project")
    /\ pc' = [pc EXCEPT ![c] = "th_unlock"]
    /\ UNCHANGED << lock, bus, sink, irq, site, rd_ret, rx_buf, rx_src,
                    sensor_data, ret, val, timestamp, chan, info >>

NextMasks ==
    \/ \E c \in Contexts : ReadDataCheck(c)
    \/ \E c \in Contexts : TriggerCheck(c)
    \/ \E c \in Contexts : TriggerLock(c)
    \/ \E c \in Contexts : TriggerProjectAnyMask(c)
    \/ \E c \in Contexts : TriggerUnlock(c)
    \/ \E c \in Contexts : TriggerPush(c)
    \/ \E c \in Contexts : TriggerNotifyDone(c)
    \/ \E c \in Contexts : TriggerReturn(c)
    \/ \E c \in Readers : ReadRawCheck(c)
    \/ \E c \in Readers : ReadRawReturn(c)

SpecMasks == InitFrames /\ [][NextMasks]_vars

(* ------------------------------------------------------------ properties *)

\* how many entries of the call log tr are in the set S
Count(tr, S) == Len(SelectSeq(tr, LAMBDA e : e \in S))

\* how each transaction logged in tr ended, in order
Outcomes(tr) ==
    SelectSeq(tr, LAMBDA e : e \in {"send_failed", "recv_failed", "crc_failed", "decode"})

\* the bus calls and settling delays logged in tr, in order
BusOps(tr) ==
    SelectSeq(tr, LAMBDA e : e \in {"send", "send_failed", "delay", "recv", "recv_failed"})

\* how many calls of dht12_read_data context c has returned from (a failed bus
\* call is logged before the unlock and return of lines 86-88)
Returned(c) ==
    Len(Outcomes(trace[c])) - (IF pc[c] = "rd_exit_unlock" THEN 1 ELSE 0)

Sends(tr) == Count(tr, {"send", "send_failed"})
Recvs(tr) == Count(tr, {"recv", "recv_failed"})

\* context c is between the mutex_lock and the mutex_unlock of dht12_read_data
InTransaction(c) ==
    pc[c] \in {"rd_send", "rd_delay1", "rd_recv", "rd_delay2", "rd_unlock", "rd_exit_unlock"}

\* the frame's fifth byte is the sum of the first four modulo 256
SumMatches(f) == f[5] = (f[1] + f[2] + f[3] + f[4]) % 256

\* the reading the four data bytes of f stand for, as plain integers
Reading(f) == << f[1] * 100 + f[2], f[3] * 100 + f[4] >>

\* C1: at most one bus transaction is in flight: no two contexts are inside
\* the locked part of dht12_read_data at once, a context between its send and
\* its receive is the one the sensor is answering, and every frame a context
\* holds answers that context's own send.
C1_OneTransactionInFlight ==
    /\ \A c, d \in Contexts : (InTransaction(c) /\ InTransaction(d)) => c = d
    /\ \A c \in Contexts : pc[c] \in {"rd_delay1", "rd_recv"} => bus = c
    /\ \A c \in Contexts : rx_buf[c] # << >> => rx_src[c] = c

\* a reader validates its own frame while the trigger handler's second
\* transaction is between send and receive
C1_Witness ==
    \E r \in Readers :
        /\ pc[r] = "rd_crc" /\ rx_src[r] = r
        /\ pc[TrigCtx] = "rd_recv" /\ site[TrigCtx] = "th2" /\ bus = TrigCtx

\* C2: once a context has passed the checksum step with frame f, f was decoded
\* iff f[4] = (f[0]+f[1]+f[2]+f[3]) mod 256; on a mismatch the call returned
\* -EIO, sensor_data is what it was before the call, nothing was written to
\* *val and nothing was projected or pushed.
C2_DecodedIffChecksum ==
    \A c \in Contexts :
        pc[c] \notin {"idle", "rd_crc"} =>
            LET f == rx_buf[c]
                o == Outcomes(trace[c])
            IN /\ (o[Len(o)] = "decode") <=> SumMatches(f)
               /\ ~SumMatches(f) =>
                     /\ o[Len(o)] = "crc_failed"
                     /\ ret[c] = -EIO
                     /\ sensor_data[c] = (IF Len(o) = 2 /\ o[1] = "decode"
                                          THEN PriorReading ELSE << >>)
                     /\ c \in Readers => val[c] = << >>
                     /\ c = TrigCtx =>
                           (sink = << >> /\ buffer = [k \in 1..BufferSlots |-> 0])

\* the handler is about to return after its second frame failed the checksum,
\* the first reading still in sensor_data and nothing pushed
C2_Witness ==
    /\ pc[TrigCtx] = "th_ret"
    /\ rx_buf[TrigCtx] = << 255, 255, 255, 255, 253 >>
    /\ sensor_data[TrigCtx] = PriorReading
    /\ sink = << >>

\* C3: a direct RAW read makes one send and at most one receive; when its
\* transaction failed it returns the negative error and *val is not written;
\* when it succeeded it returns IIO_VAL_INT and *val is the humidity of the
\* frame for the humidity channel, its temperature otherwise.
C3_DirectRawRead ==
    \A r \in Readers :
        /\ Sends(trace[r]) <= 1
        /\ Recvs(trace[r]) <= 1
        /\ (pc[r] = "rr_ret" /\ info[r] = IIO_CHAN_INFO_RAW) =>
              LET o == Outcomes(trace[r])
              IN /\ Sends(trace[r]) = 1
                 /\ Len(o) = 1
                 /\ IF o[1] = "decode"
                    THEN /\ ret[r] = IIO_VAL_INT
                         /\ val[r] = << IF chan[r] = "IIO_HUMIDITYRELATIVE"
                                        THEN Reading(rx_buf[r])[1]
                                        ELSE Reading(rx_buf[r])[2] >>
                    ELSE /\ ret[r] < 0
                         /\ val[r] = << >>

\* a RAW read of the temperature channel returns 26.50 C
C3_Witness ==
    \E r \in Readers :
        /\ pc[r] = "rr_ret" /\ info[r] = IIO_CHAN_INFO_RAW
        /\ chan[r] = "IIO_TEMP"
        /\ rx_buf[r] = << 23, 45, 26, 50, 144 >>
        /\ val[r] = << 2650 >>

\* what the push p hands over is the reading of frame f under p's scan mask
PushedFrom(p, f) ==
    /\ p.mask = 3 => p.data = Reading(f)
    /\ p.mask = 1 => p.data[1] = Reading(f)[1]
    /\ p.mask = 2 => p.data[1] = Reading(f)[2]

\* C4: a firing makes two transactions, the second after the first has ended
\* and whatever its outcome; when the second succeeds the capture is pushed,
\* and what is pushed is decoded from the second transaction's frame.
C4_TwoTransactionsPerFiring ==
    LET tr == trace[TrigCtx]
        o == Outcomes(tr)
    IN /\ Sends(tr) <= 2
       /\ Len(o) <= 2
       /\ site[TrigCtx] = "th1" => (Returned(TrigCtx) = 0 /\ Sends(tr) \in {0, 1})
       /\ site[TrigCtx] = "th2" => (Returned(TrigCtx) = 1 /\ Sends(tr) \in {1, 2})
       /\ pc[TrigCtx] \in {"th_check", "th_lock", "th_project", "th_unlock",
                           "th_push", "th_done", "th_ret"} =>
             (Returned(TrigCtx) = 2 /\ Sends(tr) = 2)
       /\ (pc[TrigCtx] = "th_ret" /\ o[2] = "decode") => Len(sink) = 1
       /\ sink # << >> =>
             (o[2] = "decode" /\ PushedFrom(sink[1], rx_buf[TrigCtx]))

\* the first transaction failed its checksum (its data bytes read 23.45 / 26.50),
\* the second succeeded with the all-zero frame, and zeros are what was pushed
\* over the 23.45 / 26.50 an earlier firing had left in data->buffer
C4_Witness ==
    /\ pc[TrigCtx] = "th_ret"
    /\ Outcomes(trace[TrigCtx]) = << "crc_failed", "decode" >>
    /\ Len(sink) = 1
    /\ sink[1].mask = 3
    /\ sink[1].data = << 0, 0 >>
    /\ irq = IRQ_HANDLED

\* C5: when the second transaction of a firing failed, the firing projects and
\* pushes nothing, also when the first one had decoded a reading; the handler
\* goes on to the acknowledgment and returns IRQ_HANDLED, never the error.
C5_SecondFailureAbandons ==
    LET tr == trace[TrigCtx]
        o == Outcomes(tr)
    IN /\ (Len(o) = 2 /\ o[2] # "decode") =>
             /\ sink = << >>
             /\ Count(tr, {"project", "push"}) = 0
             /\ pc[TrigCtx] \in {"rd_exit_unlock", "th_check", "th_done", "th_ret"}
             /\ pc[TrigCtx] # "rd_exit_unlock" => ret[TrigCtx] < 0
       /\ irq \in {0, IRQ_HANDLED}
       /\ pc[TrigCtx] = "idle" => sink = << >>

\* the first transaction decoded a reading, the second failed at the receive,
\* and the handler is about to return with nothing pushed
C5_Witness ==
    /\ pc[TrigCtx] = "th_ret"
    /\ Outcomes(trace[TrigCtx]) = << "decode", "recv_failed" >>
    /\ sensor_data[TrigCtx] = << 2345, 2650 >>
    /\ sink = << >>

\* C6: a firing acknowledges the trigger once, as its last call before it
\* returns, after both transactions and after the push when there is one;
\* it pushes at most once.
C6_OneDonePerFiring ==
    LET tr == trace[TrigCtx]
    IN /\ Count(tr, {"done"}) <= 1
       /\ Count(tr, {"push"}) <= 1
       /\ Len(sink) <= 1
       /\ pc[TrigCtx] = "th_ret" <=> Count(tr, {"done"}) = 1
       /\ Count(tr, {"done"}) = 1 =>
             /\ tr[Len(tr)] = "done"
             /\ Returned(TrigCtx) = 2
             /\ Count(tr, {"push"}) = Len(sink)

\* the success path: the push, then the acknowledgment
C6_Witness ==
    LET tr == trace[TrigCtx]
    IN /\ pc[TrigCtx] = "th_ret"
       /\ Len(tr) >= 2
       /\ tr[Len(tr) - 1] = "push"
       /\ tr[Len(tr)] = "done"
       /\ Len(sink) = 1

\* C7: after the projection, mask 0b11 leaves slot 0 = humidity and slot 1 =
\* temperature, mask 0b01 slot 0 = humidity, mask 0b10 slot 0 = temperature;
\* the per-bit loop run on mask 0b11 produces the buffer of the fast path.
C7_Projection ==
    (pc[TrigCtx] \in {"th_unlock", "th_push"}) =>
        LET sd == sensor_data[TrigCtx]
        IN /\ scan_mask \in 1..3
           /\ scan_mask = 3 => buffer = << sd[1], sd[2] >>
           /\ scan_mask = 1 => buffer[1] = sd[1]
           /\ scan_mask = 2 => buffer[1] = sd[2]
           /\ scan_mask = 3 =>
                 ApplyWrites([k \in 1..BufferSlots |-> 0], LoopWrites(3, sd, 0, 0)) = buffer

\* temperature only: the reading 128.00 / 0.99 projected under mask 0b10
C7_Witness ==
    /\ pc[TrigCtx] = "th_push"
    /\ scan_mask = 2
    /\ sensor_data[TrigCtx] = << 12800, 99 >>
    /\ buffer[1] = 99

\* C8: a decoded frame leaves hum_data = byte0*100 + byte1 and temp_data =
\* byte2*100 + byte3 as plain integers, within the s16 range, whatever
\* sensor_data held before.
C8_DecodeArithmetic ==
    \A c \in Contexts :
        LET o == Outcomes(trace[c])
        IN (pc[c] \notin {"idle", "rd_crc"} /\ o[Len(o)] = "decode") =>
              /\ sensor_data[c] = Reading(rx_buf[c])
              /\ sensor_data[c][1] \in 0..32767
              /\ sensor_data[c][2] \in 0..32767

\* the largest bytes decode to 25755 in both fields
C8_Witness ==
    \E c \in Contexts :
        /\ rx_buf[c] = << 255, 255, 255, 255, 252 >>
        /\ sensor_data[c] = << 25755, 25755 >>

\* C9: a direct read with IIO_CHAN_INFO_SCALE returns with *val = 100 for
\* either channel, one with another selector than RAW and SCALE returns
\* -EINVAL with *val not written; neither has made any call (no lock, no bus
\* operation) nor holds the lock.
C9_ScaleAndUnsupported ==
    \A r \in Readers :
        (pc[r] = "rr_ret" /\ info[r] # IIO_CHAN_INFO_RAW) =>
            /\ trace[r] = << >>
            /\ lock # r
            /\ IF info[r] = IIO_CHAN_INFO_SCALE
               THEN val[r] = << 100 >> /\ ret[r] = IIO_VAL_INT
               ELSE val[r] = << >> /\ ret[r] = -22

\* a SCALE read of the temperature channel returns while the trigger handler
\* holds the lock in mid-transaction
C9_Witness ==
    \E r \in Readers :
        /\ pc[r] = "rr_ret" /\ info[r] = IIO_CHAN_INFO_SCALE /\ chan[r] = "IIO_TEMP"
        /\ val[r] = << 100 >>
        /\ lock = TrigCtx /\ pc[TrigCtx] = "rd_recv"

\* b is a run of whole transactions, each of them send_failed, or send, delay,
\* recv_failed, or send, delay, recv, delay; when `open`, the last one may
\* still be under way
RECURSIVE TransactionShaped(_, _)
TransactionShaped(b, open) ==
    \/ b = << >>
    \/ /\ open
       /\ b \in { << "send" >>, << "send", "delay" >>, << "send", "delay", "recv" >> }
    \/ /\ b[1] = "send_failed"
       /\ TransactionShaped(Tail(b), open)
    \/ /\ Len(b) >= 3
       /\ SubSeq(b, 1, 3) = << "send", "delay", "recv_failed" >>
       /\ TransactionShaped(SubSeq(b, 4, Len(b)), open)
    \/ /\ Len(b) >= 4
       /\ SubSeq(b, 1, 4) = << "send", "delay", "recv", "delay" >>
       /\ TransactionShaped(SubSeq(b, 5, Len(b)), open)

\* C10: in every context the bus calls and delays come in the order send,
\* delay, receive, delay: a context about to receive has completed the first
\* delay after its send, a context past line 73 has completed the second
\* delay after its receive, the send wrote one byte and the receive read five.
C10_TransactionOrder ==
    \A c \in Contexts :
        LET b == BusOps(trace[c])
        IN /\ TransactionShaped(b, pc[c] \in {"rd_delay1", "rd_recv", "rd_delay2"})
           /\ pc[c] = "rd_delay1" => (Len(b) >= 1 /\ b[Len(b)] = "send" /\ rd_ret[c] = 1)
           /\ pc[c] = "rd_recv" =>
                 (Len(b) >= 2 /\ SubSeq(b, Len(b) - 1, Len(b)) = << "send", "delay" >>)
           /\ pc[c] = "rd_delay2" => (Len(b) >= 1 /\ b[Len(b)] = "recv" /\ rd_ret[c] = 5)
           /\ rx_buf[c] # << >> => Len(rx_buf[c]) = 5

\* the handler's second transaction has completed its second delay, after a
\* first transaction whose receive failed
C10_Witness ==
    /\ pc[TrigCtx] = "rd_unlock"
    /\ BusOps(trace[TrigCtx]) =
          << "send", "delay", "recv_failed", "send", "delay", "recv", "delay" >>

\* the entry `back` places before the end of the log tr, "none" when tr is
\* shorter. A log only grows at its end and is emptied when the handler
\* returns, so every entry of it was its last entry in an earlier state: what
\* holds of the last entries in every reachable state holds of all entries.
At(tr, back) == IF Len(tr) > back THEN tr[Len(tr) - back] ELSE "none"

\* the log entries that stand for a bus call that returned an error
BusFailures == {"send_failed", "recv_failed"}

\* C11: a failed bus call aborts the transaction: the next call after a failed
\* send or a failed receive is the mutex_unlock of line 87 (no receive, no
\* second send, no checksum or decode step), the code the bus call returned is
\* what dht12_read_data returns, and the caller's reading and *val are left
\* unwritten: sensor_data holds a reading only when a transaction was decoded.
C11_BusFailureAborts ==
    \A c \in Contexts :
        LET tr == trace[c]
            o == Outcomes(tr)
        IN /\ At(tr, 0) \in BusFailures => pc[c] = "rd_exit_unlock"
           /\ At(tr, 1) \in BusFailures => At(tr, 0) = "unlock"
           /\ pc[c] = "rd_exit_unlock" =>
                 (rd_ret[c] \in BusErrs /\ At(tr, 0) \in BusFailures)
           /\ (pc[c] \in {"th_check", "th_done", "th_ret", "rr_check", "rr_ret"}
                 /\ Len(o) >= 1 /\ o[Len(o)] \in BusFailures) =>
                 /\ ret[c] \in BusErrs
                 /\ c \in Readers => val[c] = << >>
           /\ sensor_data[c] = << >> <=> Count(tr, {"decode"}) = 0
           /\ (Len(o) >= 1 /\ o[Len(o)] = "send_failed" /\ site[c] \in {"none", "th2"}
                 /\ c \in Readers) => Recvs(tr) = 0

\* a direct read whose receive failed is about to return the bus error, with
\* neither a reading nor *val written
C11_Witness ==
    \E r \in Readers :
        /\ pc[r] = "rr_ret"
        /\ trace[r] = << "lock", "send", "delay", "recv_failed", "unlock" >>
        /\ ret[r] = -6
        /\ sensor_data[r] = << >>
        /\ val[r] = << >>

\* context c is between the mutex_lock of line 106 and the mutex_unlock of
\* line 119 of dht12_trigger_handler
InAssembly(c) == pc[c] \in {"th_project", "th_unlock"}

\* C12 as the specification states it: the lock is held only inside a
\* transaction, never by a context that is assembling the capture buffer.
C12_LockOnlyAroundBus ==
    \A c \in Contexts : lock = c => (InTransaction(c) /\ ~InAssembly(c))

\* C12, amended: the lock is held inside a transaction and, by the trigger
\* handler, also while it assembles the capture buffer (lines 106-119): the
\* handler holds it when it projects the channels, no transaction is under way
\* meanwhile, and it holds it neither at the checksum step nor at the push.
C12_LockAlsoAroundAssembly ==
    /\ \A c \in Contexts : lock = c => (InTransaction(c) \/ InAssembly(c))
    /\ InAssembly(TrigCtx) =>
          /\ lock = TrigCtx
          /\ \A d \in Contexts : ~InTransaction(d)
    /\ pc[TrigCtx] \in {"rd_crc", "th_check", "th_lock", "th_push", "th_done", "th_ret"} =>
          lock # TrigCtx

\* the handler holds the lock at the projection while a direct read waits for it
C12_Witness ==
    /\ pc[TrigCtx] = "th_project"
    /\ lock = TrigCtx
    /\ \E r \in Readers : pc[r] = "rd_lock"

\* C13: the checksum comparison and the decode run after the transaction has
\* released the lock: a context at the checksum step does not hold the lock,
\* its last call was the mutex_unlock of line 74, and every checksum outcome in
\* its log directly follows an unlock.
C13_CheckOutsideLock ==
    \A c \in Contexts :
        LET tr == trace[c]
        IN /\ pc[c] = "rd_crc" => (lock # c /\ At(tr, 0) = "unlock")
           /\ At(tr, 0) \in {"crc_failed", "decode"} => At(tr, 1) = "unlock"

\* the handler is validating the frame of its first transaction while a direct
\* read has taken the lock and sent its own command
C13_Witness ==
    \E r \in Readers :
        /\ pc[TrigCtx] = "rd_crc" /\ site[TrigCtx] = "th1"
        /\ lock = r /\ pc[r] = "rd_delay1" /\ bus = r

\* C14 as the specification states it: the lock is taken before the send and
\* released right after the receive: the call that follows a completed receive
\* is the mutex_unlock.
C14_ReleaseRightAfterReceive ==
    \A c \in Contexts :
        LET tr == trace[c]
        IN /\ pc[c] = "rd_send" => lock = c
           /\ At(tr, 0) = "recv" => (pc[c] = "rd_unlock" /\ lock = c)
           /\ At(tr, 1) = "recv" => At(tr, 0) = "unlock"

\* C14, amended: the lock is taken directly before the send and released
\* after the settling delay of line 73 that follows the receive: between a
\* completed receive and the mutex_unlock of line 74 the context runs that
\* delay, and nothing else, holding the lock.
C14_ReleaseAfterSettlingDelay ==
    \A c \in Contexts :
        LET tr == trace[c]
        IN /\ pc[c] = "rd_send" => (lock = c /\ At(tr, 0) = "lock")
           /\ At(tr, 0) \in {"send", "send_failed"} => At(tr, 1) = "lock"
           /\ At(tr, 0) = "recv" => (pc[c] = "rd_delay2" /\ lock = c)
           /\ At(tr, 1) = "recv" =>
                 (At(tr, 0) = "delay" /\ pc[c] = "rd_unlock" /\ lock = c)
           /\ At(tr, 2) = "recv" => (At(tr, 1) = "delay" /\ At(tr, 0) = "unlock")

\* a direct read still holds the lock after its receive and the delay that
\* follows it
C14_Witness ==
    \E r \in Readers :
        /\ pc[r] = "rd_unlock"
        /\ lock = r
        /\ trace[r] = << "lock", "send", "delay", "recv", "delay" >>

\* C15 as the specification states it: under a partial scan mask what is
\* handed to the consumer has one slot, the selected reading.
C15_PartialCaptureHasOneSlot ==
    \A k \in 1..Len(sink) :
        sink[k].mask \in {1, 2} => Len(sink[k].data) = 1

\* C15, amended: under a partial scan mask the projection writes the selected
\* reading to slot 0 of the two-slot data->buffer and leaves slot 1 as it was
\* before this firing; the push hands over data->buffer, both slots.
C15_PartialKeepsSecondSlot ==
    [][ /\ (pc[TrigCtx] = "th_project" /\ pc'[TrigCtx] = "th_unlock"
              /\ scan_mask' \in {1, 2}) =>
              /\ Len(buffer') = BufferSlots
              /\ buffer'[1] = (IF scan_mask' = 1 THEN sensor_data[TrigCtx][1]
                                                ELSE sensor_data[TrigCtx][2])
              /\ buffer'[2] = buffer[2]
        /\ (pc[TrigCtx] = "th_push" /\ pc'[TrigCtx] = "th_done") =>
              /\ Len(sink') = 1
              /\ sink'[1].data = buffer
              /\ sink'[1].mask = scan_mask ]_vars

\* a humidity-only capture of the all-zero frame is pushed with the 26.50 C
\* of an earlier firing still in slot 1
C15_Witness ==
    /\ pc[TrigCtx] = "th_done"
    /\ rx_buf[TrigCtx] = << 0, 0, 0, 0, 0 >>
    /\ Len(sink) = 1
    /\ sink[1].mask = 1
    /\ sink[1].data = << 0, 2650 >>

\* C16: lock balance. In every context the mutex_lock calls outnumber the
\* mutex_unlock calls by one exactly while it holds the lock, and by none
\* otherwise; a context holds the lock exactly while it is inside a transaction
\* or the buffer-assembly section, so the lock is free when no context is in
\* either; a context about to call mutex_lock does not hold the lock; a
\* handler about to return has released every lock it took.
C16_LockBalance ==
    /\ lock \in Contexts \cup {NoCtx}
    /\ \A c \in Contexts :
          LET locks == Count(trace[c], {"lock"})
              unlocks == Count(trace[c], {"unlock"})
          IN /\ locks - unlocks = (IF lock = c THEN 1 ELSE 0)
             /\ lock = c <=> (InTransaction(c) \/ InAssembly(c))
             /\ pc[c] \in {"rd_lock", "th_lock"} => lock # c
             /\ pc[c] \in {"th_ret", "rr_ret", "idle"} => locks = unlocks
    /\ (\A c \in Contexts : ~InTransaction(c) /\ ~InAssembly(c)) => lock = NoCtx

\* a firing whose first send failed and whose second transaction was pushed is
\* about to return: three locks taken, three released, the lock free
C16_Witness ==
    /\ pc[TrigCtx] = "th_ret"
    /\ Outcomes(trace[TrigCtx]) = << "send_failed", "decode" >>
    /\ Count(trace[TrigCtx], {"lock"}) = 3
    /\ Count(trace[TrigCtx], {"unlock"}) = 3
    /\ lock = NoCtx

\* C17: under fair scheduling every direct read under way returns, every
\* firing under way reaches the return that follows its acknowledgment, and
\* every context waiting for the lock gets it.
C17_EveryCallCompletes ==
    /\ \A r \in Readers : (pc[r] # "idle") ~> (pc[r] = "idle")
    /\ (pc[TrigCtx] # "idle") ~> (pc[TrigCtx] = "th_ret")
    /\ \A c \in Contexts : (pc[c] \in {"rd_lock", "th_lock"}) ~> (lock = c)

\* the handler waits at line 106 for the lock a direct read holds, while a
\* transaction is in flight
C17_Witness ==
    \E r \in Readers :
        /\ pc[TrigCtx] = "th_lock"
        /\ lock = r
        /\ pc[r] = "rd_recv"

\* C18: the projection never writes outside data->buffer: no write has landed
\* outside it, and under the mask just projected every write index of lines
\* 108-109 and 114-116 is in 0..BufferSlots-1.
C18_WritesStayInBuffer ==
    /\ ~oob
    /\ pc[TrigCtx] \in {"th_unlock", "th_push"} =>
          LET ws == ProjectWrites(scan_mask, sensor_data[TrigCtx])
          IN \A k \in 1..Len(ws) : ws[k][1] \in 0..(BufferSlots - 1)

\* C19: while the settling delay that follows a successful receive is still
\* to run, the context that received holds the lock and no context is about
\* to send; within one context a send never directly follows a receive.
C19_SettledBeforeNextSend ==
    \A c \in Contexts :
        LET b == BusOps(trace[c])
        IN /\ pc[c] = "rd_delay2" =>
                 /\ lock = c
                 /\ \A d \in Contexts : pc[d] # "rd_send"
           /\ At(b, 0) \in {"send", "send_failed"} => At(b, 1) # "recv"

\* the handler's first transaction has received and not yet settled, and a
\* direct read waits for the lock
C19_Witness ==
    \E r \in Readers :
        /\ pc[TrigCtx] = "rd_delay2" /\ site[TrigCtx] = "th1"
        /\ pc[r] = "rd_lock"

====
